---- MODULE Spec2Model ----
(***************************************************************************)
(* The Sinomilia game engine (sinomilia/SinomiliaLogicNumba.py, class      *)
(* Board) as a state machine.                                              *)
(*                                                                         *)
(* An engine is a record [state, selected_cards]: `state` is the flat      *)
(* buffer of signed 8-bit fields (one value per field: both stored slots   *)
(* of a field are always written together), `selected_cards` the hidden   *)
(* two-element list kept outside the buffer.  Every method of Board is an  *)
(* operator from an engine to the engine after the call.                   *)
(***************************************************************************)
EXTENDS Integers, Sequences, FiniteSets, TLC

\* ------------------------------------------------------------------ bounds
\* Number of make_move calls the driver of Spec issues from a fresh engine.
MaxMoves == 8
\* Number of calls (copy_state, make_move) issued in SpecApi.
MaxCalls == 3
\* Number of calls (make_move, swap_players) issued in SpecLate after its
\* opening moves.
MaxLateMoves == 5
\* Number of calls issued in SpecClone on the engine and its clone.
MaxCloneCalls == 4
\* Number of rounds played before SpecLate starts in the long game.
LongRounds == 25

\* --------------------------------------------------------------- constants
NumCards == 10
StartChips == 15
StartCardsTotal == 10
MaxChipsBet == 9
MinCardsTotal == 2
PASS == 10
PLAY_CHIP == 11
PLAY_MOON_CHIP == 12
CHANGE_CARD == 13

\* action_size(): the advertised number of actions.
action_size == 13
\* The largest value of a signed 8-bit field.
MaxInt8 == 127

Players == 0..1
Cards == 0..(NumCards - 1)
Moves == 0..CHANGE_CARD

\* numpy int8 arithmetic: results are stored modulo 2^8 in -128..127.
Wrap8(x) == ((x + 128) % 256) - 128

Abs(x) == IF x < 0 THEN -x ELSE x

\* ------------------------------------------------------------ construction
\* np.zeros(observation_size) viewed through the field names of copy_state.
ZeroState ==
  [ p1_cards |-> [i \in Cards |-> 0],
    p2_cards |-> [i \in Cards |-> 0],
    start_player |-> 0,
    pass_active |-> 0,
    p1_changed |-> 0,
    p2_changed |-> 0,
    p1_chips |-> 0,
    p2_chips |-> 0,
    p1_chips_bet |-> 0,
    p2_chips_bet |-> 0,
    chips_bet_total |-> 0,
    moon_chips_bet_total |-> 0,
    moon_chip_active |-> 0,
    p1_cards_total |-> 0,
    p2_cards_total |-> 0,
    p1_nines_total |-> 0,
    p2_nines_total |-> 0,
    played_card_number |-> 0,
    round |-> 0 ]

\* Board.init_game: a zero buffer with both banks and both card totals set.
init_game ==
  [ZeroState EXCEPT !.p1_chips = StartChips,
                    !.p2_chips = StartChips,
                    !.p1_cards_total = StartCardsTotal,
                    !.p2_cards_total = StartCardsTotal]

\* Board.__init__: selected_cards = [-1, -1], then init_game().
NewBoard ==
  [ state |-> init_game,
    selected_cards |-> [p \in Players |-> -1] ]

\* self.state[idx] for idx in 0..19: the card-used flags of both players.
StateAt(s, idx) ==
  IF idx < NumCards THEN s.p1_cards[idx] ELSE s.p2_cards[idx - NumCards]

\* ---------------------------------------------------------- legal-move oracle
\* _valid_select_card reading player 1's flags for both players.
_valid_select_card_no_offset(e, player) ==
  [i \in Cards |->
     IF e.selected_cards[player] # -1
       THEN FALSE
       ELSE StateAt(e.state, i) = 0]

\* _valid_select_card offering the cards whose flag is set.
_valid_select_card_marked(e, player) ==
  [i \in Cards |->
     IF e.selected_cards[player] # -1
       THEN FALSE
       ELSE StateAt(e.state, player * NumCards + i) # 0]

_valid_select_card(e, player) ==
  [i \in Cards |->
     IF e.selected_cards[player] # -1
       THEN FALSE
       ELSE StateAt(e.state, player * NumCards + i) = 0]

_valid_pass(e, player) == e.selected_cards[player] # -1

\* _valid_play_chip testing player 1's bank for both players.
_valid_play_chip_p1_bank(e, player) ==
  /\ _valid_pass(e, player)
  /\ e.state.chips_bet_total < MaxChipsBet
  /\ e.state.p1_chips > 0

\* _valid_play_chip allowing a chip when nine are already bet.
_valid_play_chip_one_more(e, player) ==
  /\ _valid_pass(e, player)
  /\ e.state.chips_bet_total <= MaxChipsBet
  /\ (IF player = 0 THEN e.state.p1_chips > 0 ELSE e.state.p2_chips > 0)

_valid_play_chip(e, player) ==
  /\ _valid_pass(e, player)
  /\ e.state.chips_bet_total < MaxChipsBet
  /\ (IF player = 0 THEN e.state.p1_chips > 0 ELSE e.state.p2_chips > 0)

\* _valid_change_card testing player 1's changed flag for both players.
_valid_change_card_p1_flag(e, player) ==
  /\ _valid_play_chip(e, player)
  /\ e.state.p1_changed = 0

_valid_change_card(e, player) ==
  /\ _valid_play_chip(e, player)
  /\ (IF player = 0 THEN e.state.p1_changed = 0 ELSE e.state.p2_changed = 0)

valid_moves(e, player) ==
  [a \in Moves |->
     IF a \in Cards THEN _valid_select_card(e, player)[a]
     ELSE IF a = PASS THEN _valid_pass(e, player)
     ELSE IF a = PLAY_CHIP THEN _valid_play_chip(e, player)
     ELSE IF a = PLAY_MOON_CHIP THEN _valid_play_chip(e, player)
     ELSE _valid_change_card(e, player)]

\* ---------------------------------------------------------- transition engine
\* _select_card marking the selected card as used.
_select_card_marks_used(e, player, card) ==
  LET marked == IF player = 0
                  THEN [e EXCEPT !.state.p1_cards[card] = 1]
                  ELSE [e EXCEPT !.state.p2_cards[card] = 1]
  IN  [marked EXCEPT !.state.played_card_number = card,
                     !.selected_cards[player] = card]

_select_card(e, player, card) ==
  [e EXCEPT !.state.played_card_number = card,
            !.selected_cards[player] = card]

\* _reset_round_state leaving player 2's changed flag as it is.
_reset_round_state_keeps_p2_changed(e, winning_player) ==
  [e EXCEPT !.state.p1_chips_bet = 0,
            !.state.p2_chips_bet = 0,
            !.state.chips_bet_total = 0,
            !.state.moon_chips_bet_total = 0,
            !.state.pass_active = 0,
            !.state.moon_chip_active = 0,
            !.state.p1_changed = 0,
            !.selected_cards = [p \in Players |-> -1],
            !.state.round = Wrap8(@ + 1),
            !.state.start_player = winning_player]

_reset_round_state(e, winning_player) ==
  [e EXCEPT !.state.p1_chips_bet = 0,
            !.state.p2_chips_bet = 0,
            !.state.chips_bet_total = 0,
            !.state.moon_chips_bet_total = 0,
            !.state.pass_active = 0,
            !.state.moon_chip_active = 0,
            !.state.p1_changed = 0,
            !.state.p2_changed = 0,
            !.selected_cards = [p \in Players |-> -1],
            !.state.round = Wrap8(@ + 1),
            !.state.start_player = winning_player]

\* The branches of _handle_round_end with the tie broken the standard way
\* whether or not a moon chip is active.
RoundOutcome_ignores_moon(e, player_who_passed_last) ==
  LET s == e.state
      p1_diff == Abs(s.chips_bet_total - e.selected_cards[0])
      p2_diff == Abs(s.chips_bet_total - e.selected_cards[1])
  IN  IF p1_diff < p2_diff THEN [credit |-> 0, winner |-> 0]
      ELSE IF p2_diff < p1_diff THEN [credit |-> 1, winner |-> 1]
      ELSE IF player_who_passed_last = 0
             THEN [credit |-> 1, winner |-> 0]
             ELSE [credit |-> 0, winner |-> 1]

\* The credit and the winner index chosen by the branches of
\* _handle_round_end: [credit |-> player whose bank grows, winner |-> the
\* value handed to _reset_round_state].
RoundOutcome(e, player_who_passed_last) ==
  LET s == e.state
      p1_diff == Abs(s.chips_bet_total - e.selected_cards[0])
      p2_diff == Abs(s.chips_bet_total - e.selected_cards[1])
  IN  IF p1_diff < p2_diff THEN [credit |-> 0, winner |-> 0]
      ELSE IF p2_diff < p1_diff THEN [credit |-> 1, winner |-> 1]
      ELSE IF s.moon_chip_active # 0
        THEN IF player_who_passed_last = 0
               THEN [credit |-> 0, winner |-> 0]
               ELSE [credit |-> 1, winner |-> 1]
        ELSE IF player_who_passed_last = 0
               THEN [credit |-> 1, winner |-> 0]
               ELSE [credit |-> 0, winner |-> 1]

\* winner_chip_gain without the two chips added to the bets.
winner_chip_gain_no_bonus(e) ==
  Wrap8(e.state.chips_bet_total + e.state.moon_chips_bet_total)

winner_chip_gain(e) ==
  Wrap8(Wrap8(e.state.chips_bet_total + e.state.moon_chips_bet_total) + 2)

_handle_round_end(e, player_who_passed_last) ==
  LET o == RoundOutcome(e, player_who_passed_last)
      g == winner_chip_gain(e)
      credited ==
        IF o.credit = 0
          THEN [e EXCEPT !.state.p1_chips = Wrap8(@ + g)]
          ELSE [e EXCEPT !.state.p2_chips = Wrap8(@ + g)]
  IN  _reset_round_state(credited, o.winner)

\* _pass ending the round only on a second pass, not after a moon chip.
_pass_ignores_moon(e, player) ==
  IF e.state.pass_active # 0
    THEN _handle_round_end(e, player)
    ELSE [e EXCEPT !.state.pass_active = 1]

_pass(e, player) ==
  IF e.state.pass_active # 0 \/ e.state.moon_chip_active # 0
    THEN _handle_round_end(e, player)
    ELSE [e EXCEPT !.state.pass_active = 1]

\* _play_chip leaving pass_active as it is.
_play_chip_keeps_pass(e, player) ==
  LET paid ==
        IF player = 0
          THEN [e EXCEPT !.state.p1_chips = Wrap8(@ - 1),
                         !.state.p1_chips_bet = Wrap8(@ + 1)]
          ELSE [e EXCEPT !.state.p2_chips = Wrap8(@ - 1),
                         !.state.p2_chips_bet = Wrap8(@ + 1)]
  IN  [paid EXCEPT !.state.chips_bet_total = Wrap8(@ + 1),
                   !.state.moon_chip_active = 0]

_play_chip(e, player) ==
  LET paid ==
        IF player = 0
          THEN [e EXCEPT !.state.p1_chips = Wrap8(@ - 1),
                         !.state.p1_chips_bet = Wrap8(@ + 1)]
          ELSE [e EXCEPT !.state.p2_chips = Wrap8(@ - 1),
                         !.state.p2_chips_bet = Wrap8(@ + 1)]
  IN  [paid EXCEPT !.state.chips_bet_total = Wrap8(@ + 1),
                   !.state.pass_active = 0,
                   !.state.moon_chip_active = 0]

_play_moon_chip(e, player) ==
  LET c == _play_chip(e, player)
  IN  [c EXCEPT !.state.moon_chips_bet_total = Wrap8(@ + 1),
                !.state.moon_chip_active = 1]

\* _change_card dropping the selected card without marking the exchange used.
_change_card_unmarked(e, player) ==
  LET changed ==
        IF player = 0 /\ e.state.p1_changed = 0
          THEN [e EXCEPT !.selected_cards[0] = -1]
        ELSE IF player = 1 /\ e.state.p2_changed = 0
          THEN [e EXCEPT !.selected_cards[1] = -1]
        ELSE e
  IN  [changed EXCEPT !.state.played_card_number = -1]

\* _change_card leaving played_card_number as it was.
_change_card_keeps_played(e, player) ==
  IF player = 0 /\ e.state.p1_changed = 0
    THEN [e EXCEPT !.state.p1_changed = 1, !.selected_cards[0] = -1]
  ELSE IF player = 1 /\ e.state.p2_changed = 0
    THEN [e EXCEPT !.state.p2_changed = 1, !.selected_cards[1] = -1]
  ELSE e

_change_card(e, player) ==
  LET changed ==
        IF player = 0 /\ e.state.p1_changed = 0
          THEN [e EXCEPT !.state.p1_changed = 1, !.selected_cards[0] = -1]
        ELSE IF player = 1 /\ e.state.p2_changed = 0
          THEN [e EXCEPT !.state.p2_changed = 1, !.selected_cards[1] = -1]
        ELSE e
  IN  [changed EXCEPT !.state.played_card_number = -1]

\* make_move switching players after every action.
next_player_always_switches(move, player) == 1 - player

\* The value make_move returns: the player who acts next.
next_player(move, player) ==
  IF move = CHANGE_CARD THEN player ELSE 1 - player

\* Board.make_move: [eng |-> the engine after the call, ret |-> its result].
make_move(e, move, player) ==
  LET counted == IF move # CHANGE_CARD
                   THEN [e EXCEPT !.state.round = Wrap8(@ + 1)]
                   ELSE e
      moved == IF move <= 9 THEN _select_card(counted, player, move)
               ELSE IF move = PASS THEN _pass(counted, player)
               ELSE IF move = PLAY_CHIP THEN _play_chip(counted, player)
               ELSE IF move = PLAY_MOON_CHIP THEN _play_moon_chip(counted, player)
               ELSE IF move = CHANGE_CARD THEN _change_card(counted, player)
               ELSE counted
  IN  [eng |-> moved, ret |-> next_player(move, player)]

\* ---------------------------------------------------------- terminal resolver
\* check_end_game: the scalar 0 while in progress (held as the empty tuple:
\* no payoff vector), else the payoff pair.  Payoffs are float32 values; they
\* are held in tenths (1.0 = 10, -0.1 = -1).
InProgress == <<>>

\* check_end_game without the card-total test.
check_end_game_banks_only(e) ==
  LET s == e.state
  IN  IF s.p1_chips > 0 /\ s.p2_chips > 0
        THEN InProgress
      ELSE IF s.p1_chips > s.p2_chips THEN <<10, -10>>
      ELSE IF s.p1_chips < s.p2_chips THEN <<-10, 10>>
      ELSE <<-1, -1>>

\* check_end_game giving player 1 the win on equal banks.
check_end_game_tie_to_p1(e) ==
  LET s == e.state
  IN  IF /\ s.p1_chips > 0
         /\ s.p2_chips > 0
         /\ s.p1_cards_total > MinCardsTotal
         /\ s.p2_cards_total > MinCardsTotal
        THEN InProgress
      ELSE IF s.p1_chips >= s.p2_chips THEN <<10, -10>>
      ELSE <<-10, 10>>

\* check_end_game without the branch for player 2's larger bank.
check_end_game_no_p2_win(e) ==
  LET s == e.state
  IN  IF /\ s.p1_chips > 0
         /\ s.p2_chips > 0
         /\ s.p1_cards_total > MinCardsTotal
         /\ s.p2_cards_total > MinCardsTotal
        THEN InProgress
      ELSE IF s.p1_chips > s.p2_chips THEN <<10, -10>>
      ELSE <<-1, -1>>

check_end_game(e) ==
  LET s == e.state
  IN  IF /\ s.p1_chips > 0
         /\ s.p2_chips > 0
         /\ s.p1_cards_total > MinCardsTotal
         /\ s.p2_cards_total > MinCardsTotal
        THEN InProgress
      ELSE IF s.p1_chips > s.p2_chips THEN <<10, -10>>
      ELSE IF s.p1_chips < s.p2_chips THEN <<-10, 10>>
      ELSE <<-1, -1>>

\* ------------------------------------------------------ perspective transform
\* x ^ 1 on a two's-complement integer: the low bit flipped.
Xor1(x) == IF x % 2 = 0 THEN x + 1 ELSE x - 1

\* swap_players leaving the two changed flags where they are.
swap_players_keeps_changed(e) ==
  LET s == e.state
      swapped == [p \in Players |-> e.selected_cards[1 - p]]
  IN  [ state |-> [s EXCEPT !.p1_cards = s.p2_cards,
                            !.p2_cards = s.p1_cards,
                            !.p1_chips = s.p2_chips,
                            !.p2_chips = s.p1_chips,
                            !.p1_chips_bet = s.p2_chips_bet,
                            !.p2_chips_bet = s.p1_chips_bet,
                            !.start_player = Xor1(s.start_player),
                            !.played_card_number = swapped[0],
                            !.p1_cards_total = s.p2_cards_total,
                            !.p2_cards_total = s.p1_cards_total,
                            !.p1_nines_total = s.p2_nines_total,
                            !.p2_nines_total = s.p1_nines_total],
        selected_cards |-> swapped ]

\* Board.swap_players: the two players' fields exchanged, start_player's low
\* bit flipped, played_card_number set to the new selected_cards[0].
swap_players(e) ==
  LET s == e.state
      swapped == [p \in Players |-> e.selected_cards[1 - p]]
  IN  [ state |-> [s EXCEPT !.p1_cards = s.p2_cards,
                            !.p2_cards = s.p1_cards,
                            !.p1_changed = s.p2_changed,
                            !.p2_changed = s.p1_changed,
                            !.p1_chips = s.p2_chips,
                            !.p2_chips = s.p1_chips,
                            !.p1_chips_bet = s.p2_chips_bet,
                            !.p2_chips_bet = s.p1_chips_bet,
                            !.start_player = Xor1(s.start_player),
                            !.played_card_number = swapped[0],
                            !.p1_cards_total = s.p2_cards_total,
                            !.p2_cards_total = s.p1_cards_total,
                            !.p1_nines_total = s.p2_nines_total,
                            !.p2_nines_total = s.p1_nines_total],
        selected_cards |-> swapped ]

\* ------------------------------------------------------------------- cloning
\* Board.copy_state(state, copy_or_not) on an engine e: the buffer becomes the
\* given one (its copy, or the very array: one value either way for a single
\* engine), selected_cards is replaced by a copy of e's own list.
copy_state(e, buffer) ==
  [state |-> buffer, selected_cards |-> e.selected_cards]

\* copy_state keeping the caller's array whether or not a copy is asked for.
shares_buffer_always(copy_or_not) == TRUE

\* Whether the engine's buffer after copy_state(state, copy_or_not) is the
\* caller's array itself (state) or an array of its own (state.copy()).
shares_buffer(copy_or_not) == ~copy_or_not

\* Buffers handed to copy_state: the fresh buffer with the fields read by the
\* oracle and the resolver varied.
LoadChips == {0, 1, StartChips}
LoadBets == {MaxChipsBet - 1, MaxChipsBet}
LoadChanged == {<<0, 0>>, <<1, 0>>, <<0, 1>>}
LoadCardsTotal == {<<StartCardsTotal, StartCardsTotal>>,
                   <<MinCardsTotal, StartCardsTotal>>,
                   <<MinCardsTotal + 1, MinCardsTotal>>}

LoadStates ==
  { [init_game EXCEPT !.p1_chips = c1,
                      !.p2_chips = c2,
                      !.chips_bet_total = t,
                      !.p1_chips_bet = t,
                      !.p1_changed = ch[1],
                      !.p2_changed = ch[2]] :
      c1 \in LoadChips, c2 \in LoadChips, t \in LoadBets, ch \in LoadChanged }
  \cup
  { [init_game EXCEPT !.p1_cards_total = ct[1],
                      !.p2_cards_total = ct[2]] : ct \in LoadCardsTotal }
  \cup
  { [init_game EXCEPT !.p1_cards[u] = 1,
                      !.p2_cards[NumCards - 1 - u] = 1,
                      !.pass_active = f,
                      !.moon_chip_active = 1 - f] :
      u \in {0, 3}, f \in {0, 1} }

\* ------------------------------------------------------------ state machine
VARIABLES
  eng,      \* the engine: [state, selected_cards]
  cur,      \* the player the driver asks next (make_move's last result)
  payoff,   \* the driver's last check_end_game() result
  last,     \* the last call: its name, arguments, legality and the engine before it
  ncalls,   \* number of calls issued so far
  twin,     \* a second engine made from the first one's buffer, if any
  raiser    \* the player whose pass set pass_active, -1 when not known

vars == <<eng, cur, payoff, last, ncalls, twin, raiser>>

\* The player whose pass raised pass_active, after `player` took the engine
\* from pre to post: the only write of 1 to pass_active is _pass's.
PassRaiser(pre, post, player, old) ==
  IF post.state.pass_active = 0 THEN -1
  ELSE IF pre.state.pass_active = 0 THEN player
  ELSE old

\* No second engine yet.  Once made: deep is the copy_or_not it was made
\* with, shared whether the two engines hold the same array, eng the second
\* engine and pre the second engine before the last call.
NoTwin ==
  [made |-> FALSE, deep |-> FALSE, shared |-> FALSE,
   eng |-> NewBoard, pre |-> NewBoard]

Init ==
  /\ eng = NewBoard
  /\ cur = 0
  /\ payoff = check_end_game(NewBoard)
  /\ last = [op |-> "new", move |-> -1, player |-> 0, legal |-> TRUE,
             pre |-> NewBoard]
  /\ ncalls = 0
  /\ twin = NoTwin
  /\ raiser = -1

\* One iteration of the driver: make_move(move, player, seed), then
\* check_end_game().
Call(move, player) ==
  LET r == make_move(eng, move, player)
  IN  /\ eng' = r.eng
      /\ cur' = r.ret
      /\ payoff' = check_end_game(r.eng)
      /\ last' = [op |-> "make_move", move |-> move, player |-> player,
                  legal |-> valid_moves(eng, player)[move], pre |-> eng]
      /\ ncalls' = ncalls + 1
      /\ raiser' = PassRaiser(eng, r.eng, player, raiser)
      /\ UNCHANGED twin

\* The driver of a game: while the game is in progress, the player to act
\* plays an action its legal-move mask allows.
CanPlay(move) ==
  /\ payoff = InProgress
  /\ ncalls < MaxMoves
  /\ valid_moves(eng, cur)[move]

SelectCard ==
  \E card \in Cards :
    /\ CanPlay(card)
    /\ Call(card, cur)

Pass ==
  /\ CanPlay(PASS)
  /\ Call(PASS, cur)

PlayChip ==
  /\ CanPlay(PLAY_CHIP)
  /\ Call(PLAY_CHIP, cur)

PlayMoonChip ==
  /\ CanPlay(PLAY_MOON_CHIP)
  /\ Call(PLAY_MOON_CHIP, cur)

ChangeCard ==
  /\ CanPlay(CHANGE_CARD)
  /\ Call(CHANGE_CARD, cur)

Next ==
  \/ SelectCard
  \/ Pass
  \/ PlayChip
  \/ PlayMoonChip
  \/ ChangeCard

Spec == Init /\ [][Next]_vars

\* The engine as a library: a newly constructed Board is given a buffer with
\* copy_state (pit.py display), and make_move is called with any action and
\* any player, legal or not.
CopyState ==
  /\ last.op = "new"
  /\ ncalls < MaxCalls
  /\ \E buffer \in LoadStates :
       /\ eng' = copy_state(eng, buffer)
       /\ payoff' = check_end_game(copy_state(eng, buffer))
       /\ last' = [op |-> "copy_state", move |-> -1, player |-> cur,
                   legal |-> TRUE, pre |-> eng]
  /\ ncalls' = ncalls + 1
  /\ raiser' = -1
  /\ UNCHANGED <<cur, twin>>

MakeMoveAny ==
  \E move \in Moves, player \in Players :
    /\ ncalls < MaxCalls
    /\ Call(move, player)

NextApi ==
  \/ CopyState
  \/ MakeMoveAny

SpecApi == Init /\ [][NextApi]_vars

\* ---------------------------------------------------------------- later play
\* The engine after a sequence of moves, each made by the player make_move
\* returned last: [eng, cur, ok], ok when every move was legal for its player
\* and made while the game was in progress.
PlayOne(acc, move) ==
  LET r == make_move(acc.eng, move, acc.cur)
  IN  [eng |-> r.eng,
       cur |-> r.ret,
       raiser |-> PassRaiser(acc.eng, r.eng, acc.cur, acc.raiser),
       ok |-> /\ acc.ok
              /\ valid_moves(acc.eng, acc.cur)[move]
              /\ check_end_game(acc.eng) = InProgress]

\* The moves are played half by half, and each half is compared with itself
\* so that it is computed before the next one starts from it.
RECURSIVE ReplayFrom(_, _)
ReplayFrom(acc, moves) ==
  IF moves = <<>> THEN acc
  ELSE IF Len(moves) = 1 THEN PlayOne(acc, Head(moves))
  ELSE LET half == Len(moves) \div 2
           mid == ReplayFrom(acc, SubSeq(moves, 1, half))
       IN  IF mid = mid
             THEN ReplayFrom(mid, SubSeq(moves, half + 1, Len(moves)))
             ELSE acc

Replay(e, player, moves) ==
  ReplayFrom([eng |-> e, cur |-> player, raiser |-> -1, ok |-> TRUE], moves)

\* Seven chips bet in the first round: cards 5 and 7, then chips and moon
\* chips in turn.
BettingMoves == <<5, 7, 11, 12, 11, 12, 11, 12, 11>>

\* Player 0 loses nine chips in the first round: cards 0 and 9, nine chips
\* each answered by a pass, then both pass.
LostRoundMoves ==
  <<0, 9, 11, 10, 11, 10, 11, 10, 11, 10, 11, 10, 11, 10, 11, 10, 11, 10,
    11, 10, 10>>

\* After that round player 0 has bet five of its last six chips on card 6 in
\* the second.
LastChipMoves ==
  LostRoundMoves \o <<9, 6, 10, 11, 10, 11, 10, 11, 10, 11, 10, 11>>

\* n rounds without a bet: cards 5 and 7, then both players pass.
RECURSIVE QuietRounds(_)
QuietRounds(n) ==
  IF n = 0 THEN <<>> ELSE <<5, 7, PASS, PASS>> \o QuietRounds(n - 1)

\* A long game: the round counter is close to the largest value of its field.
LongGameMoves == QuietRounds(LongRounds)

\* A longer game still: player 0 wins 2 chips in each round until its bank
\* holds the largest value of its field.
RichGameMoves == QuietRounds((MaxInt8 - StartChips) \div 2)

Openings == {<<>>, BettingMoves, LastChipMoves, LongGameMoves, RichGameMoves}

InitLate ==
  \E moves \in Openings :
    LET r == Replay(NewBoard, 0, moves)
    IN  /\ r.ok
        /\ eng = r.eng
        /\ cur = r.cur
        /\ payoff = check_end_game(r.eng)
        /\ last = [op |-> "new", move |-> -1, player |-> 0, legal |-> TRUE,
                   pre |-> r.eng]
        /\ ncalls = 0
        /\ twin = NoTwin
        /\ raiser = r.raiser

\* The engine applies a legal move whether or not the game is over: the
\* terminal test is the caller's.
CanMove(move) ==
  /\ ncalls < MaxLateMoves
  /\ valid_moves(eng, cur)[move]

LateSelectCard ==
  \E card \in Cards :
    /\ CanMove(card)
    /\ Call(card, cur)

LatePass ==
  /\ CanMove(PASS)
  /\ Call(PASS, cur)

LatePlayChip ==
  /\ CanMove(PLAY_CHIP)
  /\ Call(PLAY_CHIP, cur)

LatePlayMoonChip ==
  /\ CanMove(PLAY_MOON_CHIP)
  /\ Call(PLAY_MOON_CHIP, cur)

LateChangeCard ==
  /\ CanMove(CHANGE_CARD)
  /\ Call(CHANGE_CARD, cur)

\* swap_players in place: the player to act now sits in the other slot.
SwapPlayers ==
  /\ ncalls < MaxLateMoves
  /\ eng' = swap_players(eng)
  /\ cur' = 1 - cur
  /\ payoff' = check_end_game(swap_players(eng))
  /\ last' = [op |-> "swap_players", move |-> -1, player |-> cur,
              legal |-> TRUE, pre |-> eng]
  /\ ncalls' = ncalls + 1
  /\ raiser' = (IF raiser = -1 THEN -1 ELSE 1 - raiser)
  /\ UNCHANGED twin

NextLate ==
  \/ LateSelectCard
  \/ LatePass
  \/ LatePlayChip
  \/ LatePlayMoonChip
  \/ LateChangeCard
  \/ SwapPlayers

SpecLate == InitLate /\ [][NextLate]_vars

\* ------------------------------------------------------------- two engines
\* A game on one engine and, at some point, a second engine made from its
\* buffer: B = Board(n); B.copy_state(A.state, copy_or_not).  Both engines
\* are then used.  A write to an array both engines hold is seen by both;
\* each engine has a selected_cards list of its own (copy_state, line 250).
Clone ==
  \E copy_or_not \in BOOLEAN :
    /\ ~twin.made
    /\ ncalls < MaxCloneCalls
    /\ twin' = [made |-> TRUE,
                deep |-> copy_or_not,
                shared |-> shares_buffer(copy_or_not),
                eng |-> copy_state(NewBoard, eng.state),
                pre |-> NewBoard]
    /\ last' = [op |-> "clone", move |-> -1, player |-> cur, legal |-> TRUE,
                pre |-> eng]
    /\ ncalls' = ncalls + 1
    /\ UNCHANGED <<eng, cur, payoff, raiser>>

\* The second engine after the first one's buffer became `state`.
TwinSeeing(state) ==
  [twin EXCEPT !.pre = twin.eng,
               !.eng = IF twin.made /\ twin.shared
                         THEN [twin.eng EXCEPT !.state = state]
                         ELSE twin.eng]

\* The first engine after the second one's buffer became `state`.
SourceSeeing(state) ==
  IF twin.shared THEN [eng EXCEPT !.state = state] ELSE eng

SourceMove ==
  \E move \in Moves :
    LET r == make_move(eng, move, cur)
    IN  /\ ncalls < MaxCloneCalls
        /\ payoff = InProgress
        /\ valid_moves(eng, cur)[move]
        /\ eng' = r.eng
        /\ cur' = r.ret
        /\ payoff' = check_end_game(r.eng)
        /\ twin' = TwinSeeing(r.eng.state)
        /\ last' = [op |-> "make_move", move |-> move, player |-> cur,
                    legal |-> TRUE, pre |-> eng]
        /\ ncalls' = ncalls + 1
        /\ raiser' = PassRaiser(eng, r.eng, cur, raiser)

SourceSwap ==
  /\ ncalls < MaxCloneCalls
  /\ twin.made
  /\ eng' = swap_players(eng)
  /\ cur' = 1 - cur
  /\ payoff' = check_end_game(swap_players(eng))
  /\ twin' = TwinSeeing(swap_players(eng).state)
  /\ last' = [op |-> "swap_players", move |-> -1, player |-> cur,
              legal |-> TRUE, pre |-> eng]
  /\ ncalls' = ncalls + 1
  /\ raiser' = (IF raiser = -1 THEN -1 ELSE 1 - raiser)

TwinMove ==
  \E move \in Moves, player \in Players :
    LET r == make_move(twin.eng, move, player)
    IN  /\ ncalls < MaxCloneCalls
        /\ twin.made
        /\ valid_moves(twin.eng, player)[move]
        /\ twin' = [twin EXCEPT !.pre = twin.eng, !.eng = r.eng]
        /\ eng' = SourceSeeing(r.eng.state)
        /\ payoff' = check_end_game(SourceSeeing(r.eng.state))
        /\ last' = [op |-> "twin_make_move", move |-> move,
                    player |-> player, legal |-> TRUE, pre |-> eng]
        /\ ncalls' = ncalls + 1
        /\ raiser' = PassRaiser(eng, SourceSeeing(r.eng.state), player, raiser)
        /\ UNCHANGED cur

TwinSwap ==
  /\ ncalls < MaxCloneCalls
  /\ twin.made
  /\ twin' = [twin EXCEPT !.pre = twin.eng, !.eng = swap_players(twin.eng)]
  /\ eng' = SourceSeeing(swap_players(twin.eng).state)
  /\ payoff' = check_end_game(SourceSeeing(swap_players(twin.eng).state))
  /\ last' = [op |-> "twin_swap_players", move |-> -1, player |-> cur,
              legal |-> TRUE, pre |-> eng]
  /\ ncalls' = ncalls + 1
  /\ raiser' = (IF twin.shared /\ raiser # -1 THEN 1 - raiser ELSE raiser)
  /\ UNCHANGED cur

NextClone ==
  \/ Clone
  \/ SourceMove
  \/ SourceSwap
  \/ TwinMove
  \/ TwinSwap

SpecClone == Init /\ [][NextClone]_vars

\* ------------------------------------------------------------------ claims
\* What the last call was, read from `last` (the engine before it is last.pre).
Moved == last.op = "make_move"
Pre == last.pre
\* The last call was a pass that ended the round.
Resolved ==
  /\ Moved
  /\ last.move = PASS
  /\ (Pre.state.pass_active = 1 \/ Pre.state.moon_chip_active = 1)
Bank(e, p) == IF p = 0 THEN e.state.p1_chips ELSE e.state.p2_chips
Used(e, p, i) == IF p = 0 THEN e.state.p1_cards[i] ELSE e.state.p2_cards[i]
Changed(e, p) == IF p = 0 THEN e.state.p1_changed ELSE e.state.p2_changed
PreDiff(p) == Abs(Pre.state.chips_bet_total - Pre.selected_cards[p])
PreGain == Pre.state.chips_bet_total + Pre.state.moon_chips_bet_total + 2
\* Exactly player w's bank grew, by the round's gain.
CreditedOnly(w) ==
  /\ Bank(eng, w) = Bank(Pre, w) + PreGain
  /\ Bank(eng, 1 - w) = Bank(Pre, 1 - w)

\* C1: make_move(a, p) returns 1-p for every action but change-card (13),
\* and p for change-card: the same player acts again only after action 13.
C1_TurnAlternation ==
  Moved =>
    /\ last.move # CHANGE_CARD => cur = 1 - last.player
    /\ last.move = CHANGE_CARD => cur = last.player
    /\ (cur = last.player) <=> (last.move = CHANGE_CARD)

C1_Witness ==
  /\ Moved
  /\ last.move = CHANGE_CARD
  /\ last.legal
  /\ last.player = 1
  /\ cur = 1

\* The engine before the fourth call of the scenario: fresh engine, then
\* actions 5 (player 0), 7 (player 1), 10 (player 0).
C2_ScenarioPre ==
  [ state |-> [init_game EXCEPT !.played_card_number = 7,
                                !.pass_active = 1,
                                !.round = 3],
    selected_cards |-> (0 :> 5 @@ 1 :> 7) ]

C4_StartPlayerIsWinner ==
  (Resolved /\ last.legal) =>
    \A p \in Players :
      Bank(eng, p) # Bank(Pre, p) => eng.state.start_player = p

\* C5: right after a terminating pass every per-round counter and flag is 0
\* and selected_cards is [-1, -1].
C5_RoundReset ==
  Resolved =>
    /\ eng.state.p1_chips_bet = 0
    /\ eng.state.p2_chips_bet = 0
    /\ eng.state.chips_bet_total = 0
    /\ eng.state.moon_chips_bet_total = 0
    /\ eng.state.pass_active = 0
    /\ eng.state.moon_chip_active = 0
    /\ eng.state.p1_changed = 0
    /\ eng.state.p2_changed = 0
    /\ eng.selected_cards = [p \in Players |-> -1]

C5_Witness ==
  /\ Resolved
  /\ Pre.state.p1_chips_bet > 0
  /\ Pre.state.moon_chips_bet_total > 0
  /\ Pre.state.moon_chip_active = 1
  /\ Pre.state.p2_changed = 1
  /\ eng.state.chips_bet_total = 0
  /\ eng.state.p2_changed = 0

\* C6: select-card i is legal for p exactly when p has no selected card and
\* p's used flag of card i is 0.
C6_SelectCardLegal ==
  \A p \in Players : \A i \in Cards :
    valid_moves(eng, p)[i] <=>
      (eng.selected_cards[p] = -1 /\ Used(eng, p, i) = 0)

C6_Witness ==
  /\ eng.selected_cards[1] = -1
  /\ eng.selected_cards[0] # -1
  /\ Used(eng, 1, 9) = 1
  /\ Used(eng, 0, 9) = 0
  /\ ~valid_moves(eng, 1)[9]
  /\ valid_moves(eng, 1)[0]

\* C7: pass is legal for p exactly when p has a selected card; play-chip and
\* play-moon-chip are legal together, exactly when pass is legal,
\* chips_bet_total < 9 and p's own bank is positive.
C7_PassAndChipLegal ==
  \A p \in Players :
    /\ valid_moves(eng, p)[PASS] <=> eng.selected_cards[p] # -1
    /\ valid_moves(eng, p)[PLAY_CHIP] <=> valid_moves(eng, p)[PLAY_MOON_CHIP]
    /\ valid_moves(eng, p)[PLAY_CHIP] <=>
         /\ valid_moves(eng, p)[PASS]
         /\ eng.state.chips_bet_total < 9
         /\ Bank(eng, p) > 0

C7_Witness ==
  /\ eng.selected_cards[0] # -1
  /\ eng.selected_cards[1] # -1
  /\ eng.state.chips_bet_total = 8
  /\ Bank(eng, 0) > 0
  /\ Bank(eng, 1) = 0
  /\ valid_moves(eng, 0)[PLAY_CHIP]
  /\ ~valid_moves(eng, 1)[PLAY_MOON_CHIP]
  /\ valid_moves(eng, 1)[PASS]

\* C8: change-card is legal for p exactly when play-chip is legal for p and
\* p's own changed flag is 0.
C8_ChangeCardLegal ==
  \A p \in Players :
    valid_moves(eng, p)[CHANGE_CARD] <=>
      (valid_moves(eng, p)[PLAY_CHIP] /\ Changed(eng, p) = 0)

C8_Witness ==
  /\ valid_moves(eng, 0)[PLAY_CHIP]
  /\ valid_moves(eng, 1)[PLAY_CHIP]
  /\ Changed(eng, 0) = 1
  /\ Changed(eng, 1) = 0
  /\ ~valid_moves(eng, 0)[CHANGE_CARD]
  /\ valid_moves(eng, 1)[CHANGE_CARD]

\* C9: check_end_game reports in progress exactly when both banks are
\* positive and both card totals exceed 2; otherwise it returns a payoff pair.
C9_InProgressExactly ==
  /\ (payoff = InProgress) <=>
       /\ eng.state.p1_chips > 0
       /\ eng.state.p2_chips > 0
       /\ eng.state.p1_cards_total > 2
       /\ eng.state.p2_cards_total > 2
  /\ payoff # InProgress => payoff \in {<<10, -10>>, <<-10, 10>>, <<-1, -1>>}

C9_Witness ==
  /\ payoff # InProgress
  /\ eng.state.p1_chips > 0
  /\ eng.state.p2_chips > 0
  /\ eng.state.p1_cards_total > 2
  /\ eng.state.p2_cards_total = 2

\* C10: in a terminal state the payoff is [+1, -1] when p1_chips > p2_chips,
\* [-1, +1] when p1_chips < p2_chips, and -0.1 for both on equal banks.
C10_Payoff ==
  payoff # InProgress =>
    /\ eng.state.p1_chips > eng.state.p2_chips => payoff = <<10, -10>>
    /\ eng.state.p1_chips < eng.state.p2_chips => payoff = <<-10, 10>>
    /\ eng.state.p1_chips = eng.state.p2_chips => payoff = <<-1, -1>>

C10_Witness ==
  /\ payoff = <<-1, -1>>
  /\ eng.state.p1_chips = eng.state.p2_chips
  /\ Moved

\* C11: once check_end_game has returned a payoff, it returns a payoff after
\* every later make_move and swap_players: never "in progress" again.
C11_TerminalStays ==
  [][payoff # InProgress => payoff' # InProgress]_vars

\* C12: applying swap_players twice gives back the engine exactly: every
\* buffer field and selected_cards.
C12_SwapTwiceIsIdentity ==
  swap_players(swap_players(eng)) = eng

\* C15: make_move with an action valid_moves does not mark legal for that
\* player leaves the buffer and selected_cards unchanged (make_move has no
\* error outcome to report: the call returns the next player as always).
C15_IllegalMoveRejected ==
  (Moved /\ ~last.legal) => eng = Pre

\* C16: a player whose changed flag is 1 cannot change card, the flag stays 1
\* until the round is resolved, and a legal change-card is made with the flag
\* at 0 and sets it: at most one change-card per player between resolutions.
C16_ChangeOncePerRound ==
  \A p \in Players :
    /\ Changed(eng, p) = 1 => ~valid_moves(eng, p)[CHANGE_CARD]
    /\ (Moved /\ ~Resolved /\ Changed(Pre, p) = 1) => Changed(eng, p) = 1
    /\ (Moved /\ last.legal /\ last.move = CHANGE_CARD /\ last.player = p) =>
         /\ Changed(Pre, p) = 0
         /\ Changed(eng, p) = 1

C16_Witness ==
  /\ Moved
  /\ last.move = PLAY_CHIP
  /\ Changed(Pre, 0) = 1
  /\ Changed(eng, 0) = 1
  /\ cur = 0
  /\ valid_moves(eng, 0)[PLAY_CHIP]
  /\ ~valid_moves(eng, 0)[CHANGE_CARD]

\* C17: the bet counters are never negative, chips_bet_total is the sum of
\* the two bets and at most 9, and moon_chips_bet_total <= chips_bet_total.
C17_BetTotals ==
  LET s == eng.state
  IN  /\ s.p1_chips_bet >= 0
      /\ s.p2_chips_bet >= 0
      /\ s.chips_bet_total >= 0
      /\ s.moon_chips_bet_total >= 0
      /\ s.chips_bet_total = s.p1_chips_bet + s.p2_chips_bet
      /\ s.chips_bet_total <= 9
      /\ s.moon_chips_bet_total <= s.chips_bet_total

C17_Witness ==
  /\ Moved
  /\ last.move = PLAY_MOON_CHIP
  /\ eng.state.chips_bet_total = 9
  /\ eng.state.p1_chips_bet > 0
  /\ eng.state.p2_chips_bet > 0
  /\ eng.state.moon_chips_bet_total > 0
  /\ Bank(eng, cur) > 0
  /\ ~valid_moves(eng, cur)[PLAY_CHIP]

\* C18: valid_moves never marks index 13 legal: every legal action index is
\* below action_size().
C18_LegalBelowActionSize ==
  \A p \in Players :
    /\ ~valid_moves(eng, p)[13]
    /\ \A a \in Moves : valid_moves(eng, p)[a] => a < action_size

\* Some bank is larger than before the last call: a round was resolved.
BankGrew == \E p \in Players : Bank(eng, p) > Bank(Pre, p)

Bet(e, p) == IF p = 0 THEN e.state.p1_chips_bet ELSE e.state.p2_chips_bet

\* The engine after actions 5 (player 0) and 7 (player 1) on a fresh engine.
C20_ScenarioPre ==
  [ state |-> [init_game EXCEPT !.played_card_number = 7, !.round = 2],
    selected_cards |-> (0 :> 5 @@ 1 :> 7) ]

\* C20: a legal play-chip or play-moon-chip by p takes 1 from p's bank, adds
\* 1 to p's bet and to chips_bet_total and clears pass_active; the moon chip
\* also adds 1 to moon_chips_bet_total and sets moon_chip_active, the plain
\* chip clears moon_chip_active and keeps moon_chips_bet_total.  The
\* opponent's bank and bet, selected_cards and the changed flags are kept.
\* After 5, 7, 11 on a fresh engine: p1_chips 14, p1_chips_bet 1, total 1.
C20_ChipEffects ==
  /\ (Moved /\ last.legal /\ last.move \in {PLAY_CHIP, PLAY_MOON_CHIP}) =>
       LET p == last.player
       IN  /\ Bank(eng, p) = Bank(Pre, p) - 1
           /\ Bet(eng, p) = Bet(Pre, p) + 1
           /\ eng.state.chips_bet_total = Pre.state.chips_bet_total + 1
           /\ eng.state.pass_active = 0
           /\ last.move = PLAY_MOON_CHIP =>
                /\ eng.state.moon_chips_bet_total =
                     Pre.state.moon_chips_bet_total + 1
                /\ eng.state.moon_chip_active = 1
           /\ last.move = PLAY_CHIP =>
                /\ eng.state.moon_chips_bet_total =
                     Pre.state.moon_chips_bet_total
                /\ eng.state.moon_chip_active = 0
           /\ Bank(eng, 1 - p) = Bank(Pre, 1 - p)
           /\ Bet(eng, 1 - p) = Bet(Pre, 1 - p)
           /\ eng.selected_cards = Pre.selected_cards
           /\ eng.state.p1_changed = Pre.state.p1_changed
           /\ eng.state.p2_changed = Pre.state.p2_changed
  /\ (Moved /\ last.move = PLAY_CHIP /\ last.player = 0
        /\ Pre = C20_ScenarioPre) =>
       /\ eng.state.p1_chips = 14
       /\ eng.state.p1_chips_bet = 1
       /\ eng.state.chips_bet_total = 1
       /\ eng.state.pass_active = 0

C20_Witness ==
  /\ Moved
  /\ last.legal
  /\ last.move = PLAY_CHIP
  /\ last.player = 1
  /\ Pre.state.pass_active = 1
  /\ Pre.state.moon_chips_bet_total > 0
  /\ eng.state.pass_active = 0
  /\ eng.state.moon_chip_active = 0

\* C13: right after a deep clone the second engine has the first one's
\* buffer and the first one's selected_cards, so valid_moves gives the same
\* mask on both engines for both players.
C13_CloneHasSelectedCards ==
  (last.op = "clone" /\ twin.deep) =>
    /\ twin.eng.state = eng.state
    /\ twin.eng.selected_cards = eng.selected_cards
    /\ \A p \in Players : valid_moves(twin.eng, p) = valid_moves(eng, p)

\* C14: after a deep clone a make_move or swap_players on the clone changes
\* nothing of the source engine, and one on the source changes nothing of
\* the clone.
C14_DeepCloneIndependent ==
  (twin.made /\ twin.deep) =>
    /\ last.op \in {"twin_make_move", "twin_swap_players"} => eng = Pre
    /\ last.op \in {"make_move", "swap_players"} => twin.eng = twin.pre

C14_Witness ==
  /\ twin.made
  /\ twin.deep
  /\ last.op = "twin_make_move"
  /\ last.move = PLAY_CHIP
  /\ twin.eng.state.chips_bet_total = twin.pre.state.chips_bet_total + 1
  /\ eng = Pre
  /\ eng.state.chips_bet_total = 0

\* C21: a legal change-card by p sets p's changed flag, sets
\* selected_cards[p] and played_card_number to -1 and changes nothing else:
\* the opponent's card and flag, the banks, the bets, pass_active,
\* moon_chip_active and round are kept.
C21_ChangeCardEffects ==
  (Moved /\ last.legal /\ last.move = CHANGE_CARD) =>
    LET p == last.player
        s == eng.state
        q == Pre.state
    IN  /\ Changed(eng, p) = 1
        /\ eng.selected_cards[p] = -1
        /\ s.played_card_number = -1
        /\ eng.selected_cards[1 - p] = Pre.selected_cards[1 - p]
        /\ Changed(eng, 1 - p) = Changed(Pre, 1 - p)
        /\ s.p1_chips = q.p1_chips
        /\ s.p2_chips = q.p2_chips
        /\ s.p1_chips_bet = q.p1_chips_bet
        /\ s.p2_chips_bet = q.p2_chips_bet
        /\ s.chips_bet_total = q.chips_bet_total
        /\ s.moon_chips_bet_total = q.moon_chips_bet_total
        /\ s.pass_active = q.pass_active
        /\ s.moon_chip_active = q.moon_chip_active
        /\ s.round = q.round

C21_Witness ==
  /\ Moved
  /\ last.legal
  /\ last.move = CHANGE_CARD
  /\ last.player = 1
  /\ Pre.selected_cards[1] # -1
  /\ Pre.state.played_card_number # -1
  /\ Pre.state.pass_active = 1
  /\ Pre.state.chips_bet_total > 0
  /\ eng.selected_cards[1] = -1
  /\ eng.state.p2_changed = 1

\* C22: played_card_number is -1 exactly when no card is selected, that is
\* when selected_cards is [-1, -1].
C22_PlayedCardPending ==
  (eng.state.played_card_number = -1) <=>
    (\A p \in Players : eng.selected_cards[p] = -1)

\* C23: while the game is in progress and pass_active is 1, the pass that
\* raised it was made by the opponent of the player to act.
C23_PassRaisedByOpponent ==
  (payoff = InProgress /\ eng.state.pass_active = 1) => raiser = 1 - cur

\* C24: pass_active and moon_chip_active are never both 1.
C24_OneTerminationFlag ==
  ~(eng.state.pass_active = 1 /\ eng.state.moon_chip_active = 1)

C24_Witness ==
  /\ Moved
  /\ last.legal
  /\ last.move = PLAY_MOON_CHIP
  /\ Pre.state.pass_active = 1
  /\ eng.state.pass_active = 0
  /\ eng.state.moon_chip_active = 1

\* The round counter after the last call minus the one before it.
RoundChange == eng.state.round - Pre.state.round

\* C25: make_move adds exactly 1 to round for a card selection, a chip, a
\* moon chip and a pass that does not end the round, exactly 2 for a pass
\* that ends the round, and nothing for change-card.
C25_RoundIncrements ==
  Moved =>
    RoundChange = (IF last.move = CHANGE_CARD THEN 0
                   ELSE IF Resolved THEN 2
                   ELSE 1)

\* C26: in a game that has not reached a terminal state, the stored round
\* never decreases from one state to the next: it never wraps to a negative
\* value.
C26_RoundNeverDecreases ==
  (Moved /\ last.legal /\ check_end_game(Pre) = InProgress) =>
    /\ eng.state.round >= Pre.state.round
    /\ eng.state.round >= 0

\* C27: swap_players exchanges the roles: valid_moves(p) before the swap is
\* valid_moves(1 - p) after it, for both players, and pass_active,
\* moon_chip_active, chips_bet_total, moon_chips_bet_total and round are kept.
C27_SwapExchangesRoles ==
  (last.op = "swap_players") =>
    /\ \A p \in Players : valid_moves(Pre, p) = valid_moves(eng, 1 - p)
    /\ eng.state.pass_active = Pre.state.pass_active
    /\ eng.state.moon_chip_active = Pre.state.moon_chip_active
    /\ eng.state.chips_bet_total = Pre.state.chips_bet_total
    /\ eng.state.moon_chips_bet_total = Pre.state.moon_chips_bet_total
    /\ eng.state.round = Pre.state.round

C27_Witness ==
  /\ last.op = "swap_players"
  /\ Changed(Pre, 0) = 1
  /\ Changed(Pre, 1) = 0
  /\ Pre.selected_cards[0] # -1
  /\ Pre.selected_cards[1] # -1
  /\ ~valid_moves(Pre, 0)[CHANGE_CARD]
  /\ valid_moves(Pre, 1)[CHANGE_CARD]
  /\ valid_moves(eng, 0)[CHANGE_CARD]
  /\ ~valid_moves(eng, 1)[CHANGE_CARD]

\* C28: while the game is in progress, valid_moves marks at least one action
\* legal for the player to act.
C28_SomeLegalMove ==
  (payoff = InProgress) => \E a \in Moves : valid_moves(eng, cur)[a]

C28_Witness ==
  /\ payoff = InProgress
  /\ Moved
  /\ last.move = CHANGE_CARD
  /\ eng.selected_cards[cur] = -1
  /\ eng.selected_cards[1 - cur] # -1
  /\ eng.state.chips_bet_total > 0
  /\ \A a \in {PASS, PLAY_CHIP, PLAY_MOON_CHIP, CHANGE_CARD} :
       ~valid_moves(eng, cur)[a]
  /\ \A c \in Cards : valid_moves(eng, cur)[c]

\* C29: when pass is legal for the player to act, the opponent has a selected
\* card too; so a round is resolved with both selected_cards entries in 0..9.
C29_PassNeedsBothCards ==
  /\ (payoff = InProgress /\ valid_moves(eng, cur)[PASS]) =>
       eng.selected_cards[1 - cur] # -1
  /\ (Resolved /\ last.legal) =>
       \A p \in Players : Pre.selected_cards[p] \in Cards

C29_Witness ==
  /\ Resolved
  /\ last.legal
  /\ Changed(Pre, 0) = 1
  /\ Pre.selected_cards[0] \in Cards
  /\ Pre.selected_cards[1] \in Cards
  /\ eng.selected_cards = [p \in Players |-> -1]

\* ---------------------------------------------------------------- one round
\* One round of a game, played to its resolution: the first round, or the
\* second after player 0 lost nine chips in the first.  The player to act
\* plays any legal action until a pass ends the round or the game is over
\* (of the cards, the lowest and the highest are played).  ncalls counts the
\* moves of the round; no bound on it is imposed.
RoundStarts == {<<>>, LostRoundMoves}

InitRound ==
  \E moves \in RoundStarts :
    LET r == Replay(NewBoard, 0, moves)
    IN  /\ r.ok
        /\ eng = r.eng
        /\ cur = r.cur
        /\ payoff = check_end_game(r.eng)
        /\ last = [op |-> "new", move |-> -1, player |-> 0, legal |-> TRUE,
                   pre |-> r.eng]
        /\ ncalls = 0
        /\ twin = NoTwin
        /\ raiser = r.raiser

RoundCards == {0, NumCards - 1}

RoundMoves == RoundCards \cup {PASS, PLAY_CHIP, PLAY_MOON_CHIP, CHANGE_CARD}

RoundMove ==
  \E move \in RoundMoves :
    /\ payoff = InProgress
    /\ ~Resolved
    /\ valid_moves(eng, cur)[move]
    /\ Call(move, cur)

NextRound == RoundMove

SpecRound == InitRound /\ [][NextRound]_vars

\* The longest a round can be: each player selects a card, changes it once
\* and selects again, every chip is preceded by a pass, and two passes end
\* the round.
RoundMoveLimit == 3 * Cardinality(Players) + 2 * MaxChipsBet + 2

\* C30: every round ends.  While a round is not resolved and the game is in
\* progress, the round has had fewer than RoundMoveLimit moves and offers a
\* legal move; so every sequence of legal moves reaches a resolution or a
\* terminal state within RoundMoveLimit moves and none stays in one round.
C30_RoundEnds ==
  /\ ncalls <= RoundMoveLimit
  /\ (~Resolved /\ payoff = InProgress) =>
       /\ ncalls < RoundMoveLimit
       /\ \E move \in RoundMoves : valid_moves(eng, cur)[move]

C30_Witness ==
  /\ Resolved
  /\ ncalls = RoundMoveLimit
  /\ Pre.state.chips_bet_total = MaxChipsBet
  /\ Pre.state.p1_changed = 1
  /\ Pre.state.p2_changed = 1

C33_BankNeverOverflows ==
  /\ \A p \in Players : Bank(eng, p) >= 0
  /\ (Resolved /\ last.legal) =>
       \E w \in Players :
         /\ Bank(Pre, w) + PreGain <= MaxInt8
         /\ CreditedOnly(w)
         /\ Bank(eng, w) > 0

\* C32: a legal move changes at most one bank; so when a legal move ends a
\* game that was in progress, exactly one bank is at 0 or below and the other
\* above 0: the banks differ and the payoff is not the tie payoff.
C32_NoTieAtFirstTerminal ==
  (Moved /\ last.legal) =>
    /\ \E p \in Players : Bank(eng, p) = Bank(Pre, p)
    /\ (check_end_game(Pre) = InProgress /\ payoff # InProgress) =>
         /\ eng.state.p1_chips # eng.state.p2_chips
         /\ payoff # <<-1, -1>>
         /\ \E p \in Players : Bank(eng, p) <= 0 /\ Bank(eng, 1 - p) > 0

C32_Witness ==
  /\ Moved
  /\ last.legal
  /\ last.move \in {PLAY_CHIP, PLAY_MOON_CHIP}
  /\ check_end_game(Pre) = InProgress
  /\ Pre.state.p1_chips = 1
  /\ eng.state.p1_chips = 0
  /\ eng.state.p2_chips > 0
  /\ payoff = <<-10, 10>>

====
